---- MODULE Spec2Model ----
(***************************************************************************)
(* Country Metric Comparison Tool (src/comparison.py).                     *)
(*                                                                         *)
(* The Streamlit script is modelled as a state machine: the script is run  *)
(* from the top on every user interaction; load_dataset and                *)
(* fetch_country_data are memoised by st.cache_data for the life of the    *)
(* process.  One run is: load the catalog, probe the catalog links for a   *)
(* country list, let the user pick two countries and a metric, and (when   *)
(* the button is pressed) run the comparison.                              *)
(***************************************************************************)
EXTENDS Integers, Sequences, FiniteSets, TLC

VARIABLES
    sheet,        \* rows of the catalog spreadsheet (Sheet1), or unavailable
    web,          \* what each dataset URL serves (the remote world)
    df,           \* the loaded catalog (load_dataset's cached return value)
    metrics,      \* metric names offered for selection (line 81)
    cache,        \* st.cache_data store of fetch_country_data: url -> result
    netCalls,     \* number of requests.get calls issued per url
    firstResult,  \* history: what the first fetch of each url returned
    lastFetch,    \* history: the most recent fetch_country_data call
    fetchLog,     \* history: urls fetched by the country loop of this run
    pc,           \* position of the script
    idx,          \* position of the country loop in df
    countries,    \* the country list of this run
    sel,          \* the sidebar selection: country_a, country_b, metric
    result        \* what the comparison handler produced in this run

vars == <<sheet, web, df, metrics, cache, netCalls, firstResult, lastFetch,
          fetchLog, pc, idx, countries, sel, result>>

----------------------------------------------------------------------------
(* Bounds of the model *)

MaxCatalog == 2     \* rows of the catalog sheet
MaxCols == 4        \* columns of a dataset in the column-layout inputs
MaxRows == 3        \* rows of a dataset in the row inputs

----------------------------------------------------------------------------
(* Text.  Column and metric names are sequences of characters, so that     *)
(* str.lower() and the substring test are computed.                        *)

UpperChars == <<"A","B","C","D","E","F","G","H","I","J","K","L","M",
                "N","O","P","Q","R","S","T","U","V","W","X","Y","Z">>
LowerChars == <<"a","b","c","d","e","f","g","h","i","j","k","l","m",
                "n","o","p","q","r","s","t","u","v","w","x","y","z">>

\* str.lower() on one character
LowerChar(c) ==
    IF \E i \in DOMAIN UpperChars : UpperChars[i] = c
    THEN LowerChars[CHOOSE i \in DOMAIN UpperChars : UpperChars[i] = c]
    ELSE c

\* str.lower()
Lower(s) == [i \in DOMAIN s |-> LowerChar(s[i])]

\* Python's `needle in hay` on strings
Contains(needle, hay) ==
    \E k \in 0..(Len(hay) - Len(needle)) :
        SubSeq(hay, k + 1, k + Len(needle)) = needle

Range(s) == {s[i] : i \in DOMAIN s}

\* the members of S among 1..n, in increasing order
RECURSIVE IdxSeq(_, _)
IdxSeq(n, S) ==
    IF n = 0 THEN <<>>
    ELSE IF n \in S THEN Append(IdxSeq(n - 1, S), n)
         ELSE IdxSeq(n - 1, S)

----------------------------------------------------------------------------
(* float64.  A dataset value is an IEEE-754 double m * 2^(e-52) with a 53  *)
(* bit significand m = hi * 2^26 + lo, or NaN.  The inputs are doubles of  *)
(* the binade [1,2) (e = 0); sums carry a larger exponent.  Addition and   *)
(* division round to nearest, ties to even, as the hardware does.          *)

Limb == 2^26

NaN == [nan |-> TRUE, hi |-> 0, lo |-> 0, e |-> 0]
F14 == [nan |-> FALSE, hi |-> 93952409, lo |-> 40265318, e |-> 0]   \* 1.4
F16 == [nan |-> FALSE, hi |-> 107374182, lo |-> 26843546, e |-> 0]  \* 1.6

\* pd.isna on a value
IsNA(x) == x.nan

\* x < y on non-NaN doubles
FLess(x, y) ==
    \/ x.e < y.e
    \/ x.e = y.e /\ x.hi < y.hi
    \/ x.e = y.e /\ x.hi = y.hi /\ x.lo < y.lo

FLeq(x, y) == x = y \/ FLess(x, y)

\* carry the low limb into the high limb
Carry(hi, lo) == <<hi + (lo \div Limb), lo % Limb>>

\* the integer hi*2^26 + lo rounded to a multiple of q (a power of two),
\* ties to even, as a limb pair of the multiple's quotient by q and q
RoundQ(hi, lo, q) ==
    LET r    == lo % q
        down == lo - r
        odd  == (down \div q) % 2 = 1
        up   == 2 * r > q \/ (2 * r = q /\ odd)
    IN  Carry(hi, IF up THEN down + q ELSE down)

\* normalise an exact non-negative integer (in units of 2^-52) of at most
\* 57 bits to a double: 53 significant bits, correctly rounded
RECURSIVE Normalise(_, _, _)
Normalise(hi, lo, k) ==
    IF hi < 2 * Limb * (2^k)
    THEN LET p == RoundQ(hi, lo, 2^k)
         IN  IF p[1] < 2 * Limb * (2^k)
             THEN [nan |-> FALSE,
                   hi |-> p[1] \div (2^k),
                   lo |-> ((p[1] % (2^k)) * Limb + p[2]) \div (2^k),
                   e |-> k]
             ELSE [nan |-> FALSE, hi |-> Limb, lo |-> 0, e |-> k + 1]
    ELSE Normalise(hi, lo, k + 1)

\* the exact integer of a double, in units of 2^-52, as a limb pair
Units(x) == Carry(x.hi * (2^x.e), x.lo * (2^x.e))

\* x + y on non-NaN doubles (x, y >= 1)
FAdd(x, y) ==
    LET a == Units(x)
        b == Units(y)
        s == Carry(a[1] + b[1], a[2] + b[2])
    IN  Normalise(s[1], s[2], 0)

\* x - y on two doubles of one binade: the difference is exact (Sterbenz),
\* kept as a signed count of units of 2^(e-52)
FSub(x, y) ==
    [e |-> x.e, hi |-> x.hi - y.hi, lo |-> x.lo - y.lo]

\* x / n for a count n >= 1, the quotient lying in [1,2)
FDivCount(x, n) ==
    LET a   == Units(x)
        qh  == a[1] \div n
        rh  == a[1] % n
        t   == rh * Limb + a[2]
        ql  == t \div n
        r   == t % n
        up  == 2 * r > n \/ (2 * r = n /\ ql % 2 = 1)
        p   == Carry(qh, IF up THEN ql + 1 ELSE ql)
    IN  Normalise(p[1], p[2], 0)

----------------------------------------------------------------------------
(* Catalog and datasets *)

\* column names of the datasets
ColEntity == <<"E","n","t","i","t","y">>
ColYear   == <<"Y","e","a","r">>
ColCode   == <<"C","o","d","e">>
ColGDP    == <<"G","D","P">>
ColGdpPc  == <<"g","d","p","_","p","c">>
ColPop    == <<"P","o","p">>

\* metric names of the catalog
MetGdp  == <<"g","d","p">>
MetPop  == <<"P","O","P">>
MetLife == <<"L","i","f","e">>
MetCO2  == <<"C","O","2">>

\* a missing cell of the link column (NaN), and the dataset links
NaLink == "<NaN>"
URLs == {"url1", "url2"}

\* pd.isna on a link cell
IsNaLink(l) == l = NaLink

\* str.strip(): the links of the model carry no whitespace unless they are
\* nothing but whitespace
Strip(l) == IF l \in {"", " "} THEN "" ELSE l

\* the return value None of load_dataset and of fetch_country_data
NoneFrame == [ok |-> FALSE, columns |-> <<>>, rows |-> <<>>]
Frame(cols, rows) == [ok |-> TRUE, columns |-> cols, rows |-> rows]

\* isinstance(x, pd.DataFrame) and c in x.columns
HasColumn(t, c) == t.ok /\ c \in Range(t.columns)

\* position of column c in table t
ColIndex(t, c) == CHOOSE j \in DOMAIN t.columns : t.columns[j] = c

\* t.loc[i, c]
Cell(t, i, c) == t.rows[i][ColIndex(t, c)]

FALLBACK_COUNTRIES ==
    << "United States", "China", "India", "Russia", "Germany",
       "United Kingdom", "France", "Japan", "Brazil", "Canada",
       "Australia", "Italy", "Spain", "Mexico", "South Korea",
       "Indonesia", "Turkey", "Saudi Arabia", "Argentina", "South Africa" >>

\* Python's order on the country names of the model (by code point)
NameOrder ==
    << "Argentina", "Australia", "Brazil", "Canada", "China", "France",
       "Germany", "India", "Indonesia", "Italy", "Japan", "Mexico", "Russia",
       "Saudi Arabia", "South Africa", "South Korea", "Spain", "Turkey",
       "United Kingdom", "United States" >>

NameRank(n) == CHOOSE i \in DOMAIN NameOrder : NameOrder[i] = n

\* a < b on str
NameLess(a, b) == NameRank(a) < NameRank(b)

\* sorted(...) on a list of names: insertion sort
RECURSIVE InsertName(_, _)
InsertName(s, n) ==
    IF s = <<>> THEN <<n>>
    ELSE IF NameLess(n, Head(s)) THEN <<n>> \o s
         ELSE <<Head(s)>> \o InsertName(Tail(s), n)

RECURSIVE SortedNames(_)
SortedNames(s) ==
    IF s = <<>> THEN <<>>
    ELSE InsertName(SortedNames(SubSeq(s, 1, Len(s) - 1)), s[Len(s)])

\* Series.unique(): the distinct values in order of first appearance
RECURSIVE Unique(_)
Unique(s) ==
    IF s = <<>> THEN <<>>
    ELSE LET u == Unique(SubSeq(s, 1, Len(s) - 1))
         IN  IF s[Len(s)] \in Range(u) THEN u ELSE Append(u, s[Len(s)])

\* t[c].tolist()
Column(t, c) == [i \in DOMAIN t.rows |-> Cell(t, i, c)]

\* load_dataset: df.dropna(subset=[link column]) on the sheet that was read,
\* None when no file is found and none is uploaded
DropNaLinks(rows) ==
    LET keep == IdxSeq(Len(rows), {i \in DOMAIN rows : ~IsNaLink(rows[i].link)})
    IN  [k \in DOMAIN keep |-> rows[keep[k]]]

load_dataset(sh) ==
    IF sh.ok THEN [ok |-> TRUE, rows |-> DropNaLinks(sh.rows)]
    ELSE [ok |-> FALSE, rows |-> <<>>]

\* df["metric"].dropna().astype(str).unique().tolist()
MetricList(d) == Unique([i \in DOMAIN d.rows |-> d.rows[i].metric])

\* what requests.get + read_csv can give for a url: the served table, None on
\* a non-200 status (the served None), or None on a timeout or any other
\* exception; a string that is no url raises MissingSchema
NetworkOutcomes(url) ==
    IF url \in URLs THEN {web[url], NoneFrame} ELSE {NoneFrame}

\* the body of fetch_country_data: one request, whose result (a table or
\* None) st.cache_data stores under the url
FetchUncached(url, outcome) ==
    [result |-> outcome,
     cache  |-> [u \in DOMAIN cache \cup {url} |->
                    IF u = url THEN outcome ELSE cache[u]],
     calls  |-> [u \in DOMAIN netCalls \cup {url} |->
                    IF u = url
                    THEN (IF u \in DOMAIN netCalls THEN netCalls[u] ELSE 0) + 1
                    ELSE netCalls[u]]]

\* faulty variant of fetch_country_data: the store is never consulted
FetchAlways(url, outcome) == FetchUncached(url, outcome)

\* line 48: st.cache_data around the body
fetch_country_data(url, outcome) ==
    IF url \in DOMAIN cache
    THEN [result |-> cache[url], cache |-> cache, calls |-> netCalls]
    ELSE FetchUncached(url, outcome)

\* the bookkeeping of one fetch_country_data call
RecordFetch(url, f) ==
    /\ cache' = f.cache
    /\ netCalls' = f.calls
    /\ lastFetch' = [made |-> TRUE, url |-> url, result |-> f.result]
    /\ firstResult' = IF url \in DOMAIN firstResult THEN firstResult
                      ELSE [u \in DOMAIN firstResult \cup {url} |->
                               IF u = url THEN f.result ELSE firstResult[u]]

NoFetch == [made |-> FALSE, url |-> "", result |-> NoneFrame]

----------------------------------------------------------------------------
(* The comparison (lines 125-322).  A filtered frame is the sequence of    *)
(* the index labels of its rows in the fetched table.                      *)

\* data[data["Entity"] == country]
RowsOf(data, country) ==
    IdxSeq(Len(data.rows),
           {i \in DOMAIN data.rows : Cell(data, i, ColEntity) = country})

\* frame[col].values
Values(data, frame, col) == [k \in DOMAIN frame |-> Cell(data, frame[k], col)]

\* the columns that are never taken as the fallback value column
Reserved == {ColEntity, ColYear, ColCode}

\* faulty variant of MetricColumns: the letter case is not ignored
MetricColumnsCaseSensitive(data, metric) ==
    SelectSeq(data.columns, LAMBDA col : Contains(metric, col))

\* [col for col in data.columns if selected_metric.lower() in col.lower()]
MetricColumns(data, metric) ==
    SelectSeq(data.columns, LAMBDA col : Contains(Lower(metric), Lower(col)))

\* [col for col in data.columns if col not in ["Entity", "Year", "Code"]]
PotentialColumns(data) ==
    SelectSeq(data.columns, LAMBDA col : col \notin Reserved)

\* lines 157-167: the value column, or none (error and st.stop())
FindMetricColumn(data, metric) ==
    LET metric_columns == MetricColumns(data, metric)
        potential_columns == PotentialColumns(data)
    IN  IF metric_columns = <<>>
        THEN IF potential_columns # <<>>
             THEN [found |-> TRUE, col |-> potential_columns[1]]
             ELSE [found |-> FALSE, col |-> <<>>]
        ELSE [found |-> TRUE, col |-> metric_columns[1]]

\* Series.max() / Series.min() on the Year column (integers)
RECURSIVE IntMax(_)
IntMax(v) ==
    IF Len(v) = 1 THEN v[1]
    ELSE LET m == IntMax(SubSeq(v, 1, Len(v) - 1))
         IN  IF v[Len(v)] > m THEN v[Len(v)] ELSE m

RECURSIVE IntMin(_)
IntMin(v) ==
    IF Len(v) = 1 THEN v[1]
    ELSE LET m == IntMin(SubSeq(v, 1, Len(v) - 1))
         IN  IF v[Len(v)] < m THEN v[Len(v)] ELSE m

\* faulty variant of LatestYear: the least year
LatestYearAsMin(data, frame) == IntMin(Values(data, frame, ColYear))

\* frame["Year"].max()
LatestYear(data, frame) == IntMax(Values(data, frame, ColYear))

\* frame[frame["Year"] == year]
RowsOfYear(data, frame, year) ==
    SelectSeq(frame, LAMBDA i : Cell(data, i, ColYear) = year)

\* latest[col].values[0] if not latest.empty else None (None as missing)
LatestValue(data, latest, col) ==
    IF latest = <<>> THEN NaN ELSE Cell(data, latest[1], col)

\* Series.max(), skipna: NaN when nothing is left
RECURSIVE SeriesMax(_)
SeriesMax(v) ==
    IF v = <<>> THEN NaN
    ELSE LET m == SeriesMax(SubSeq(v, 1, Len(v) - 1))
             x == v[Len(v)]
         IN  IF IsNA(x) THEN m
             ELSE IF IsNA(m) THEN x
             ELSE IF FLess(m, x) THEN x ELSE m

\* Series.min(), skipna
RECURSIVE SeriesMin(_)
SeriesMin(v) ==
    IF v = <<>> THEN NaN
    ELSE LET m == SeriesMin(SubSeq(v, 1, Len(v) - 1))
             x == v[Len(v)]
         IN  IF IsNA(x) THEN m
             ELSE IF IsNA(m) THEN x
             ELSE IF FLess(x, m) THEN x ELSE m

\* Series.idxmax(), skipna: the position of the first occurrence of the
\* maximum; 0 stands for the NaN that an all-NaN series gives (the result
\* the code tests with pd.isna)
RECURSIVE IdxMax(_)
IdxMax(v) ==
    IF v = <<>> THEN 0
    ELSE LET p == IdxMax(SubSeq(v, 1, Len(v) - 1))
             x == v[Len(v)]
         IN  IF IsNA(x) THEN p
             ELSE IF p = 0 THEN Len(v)
             ELSE IF FLess(v[p], x) THEN Len(v) ELSE p

\* Series.idxmin(), skipna
RECURSIVE IdxMin(_)
IdxMin(v) ==
    IF v = <<>> THEN 0
    ELSE LET p == IdxMin(SubSeq(v, 1, Len(v) - 1))
             x == v[Len(v)]
         IN  IF IsNA(x) THEN p
             ELSE IF p = 0 THEN Len(v)
             ELSE IF FLess(x, v[p]) THEN Len(v) ELSE p

\* Series.count(): the number of non-missing values
RECURSIVE SeriesCount(_)
SeriesCount(v) ==
    IF v = <<>> THEN 0
    ELSE SeriesCount(SubSeq(v, 1, Len(v) - 1))
         + (IF IsNA(v[Len(v)]) THEN 0 ELSE 1)

\* the float64 sum of the non-missing values, left to right (NaN: none)
RECURSIVE SeriesSum(_)
SeriesSum(v) ==
    IF v = <<>> THEN NaN
    ELSE LET s == SeriesSum(SubSeq(v, 1, Len(v) - 1))
             x == v[Len(v)]
         IN  IF IsNA(x) THEN s
             ELSE IF IsNA(s) THEN x
             ELSE FAdd(s, x)

\* faulty variant of SeriesMean: missing values are counted
SeriesMeanOverLen(v) ==
    IF SeriesCount(v) = 0 THEN NaN ELSE FDivCount(SeriesSum(v), Len(v))

\* Series.mean(), skipna: sum / count in float64
SeriesMean(v) ==
    IF SeriesCount(v) = 0 THEN NaN ELSE FDivCount(SeriesSum(v), SeriesCount(v))

\* no year (None)
NoYear == 0

\* lines 181-199: the statistics of one country
CountryStats(data, frame, col) ==
    LET v == Values(data, frame, col)
    IN  [max  |-> SeriesMax(v),
         min  |-> SeriesMin(v),
         mean |-> SeriesMean(v),
         max_year |-> IF IdxMax(v) = 0 THEN NoYear
                      ELSE Cell(data, frame[IdxMax(v)], ColYear),
         min_year |-> IF IdxMin(v) = 0 THEN NoYear
                      ELSE Cell(data, frame[IdxMin(v)], ColYear)]

NoStats == [max |-> NaN, min |-> NaN, mean |-> NaN,
            max_year |-> NoYear, min_year |-> NoYear]

\* frame[["Entity", "Year", col]]
Project(data, frame, col) ==
    [k \in DOMAIN frame |->
        << Cell(data, frame[k], ColEntity), Cell(data, frame[k], ColYear),
           Cell(data, frame[k], col) >>]

\* the order of sort_values(["Entity", "Year"])
RowBefore(r, q) ==
    \/ NameLess(r[1], q[1])
    \/ r[1] = q[1] /\ r[2] < q[2]

\* sort_values(["Entity", "Year"]): a stable sort
RECURSIVE InsertRow(_, _)
InsertRow(s, r) ==
    IF s = <<>> THEN <<r>>
    ELSE IF RowBefore(r, s[Len(s)]) 
         THEN Append(InsertRow(SubSeq(s, 1, Len(s) - 1), r), s[Len(s)])
         ELSE Append(s, r)

RECURSIVE SortValues(_)
SortValues(s) ==
    IF s = <<>> THEN <<>>
    ELSE InsertRow(SortValues(SubSeq(s, 1, Len(s) - 1)), s[Len(s)])

\* faulty variant of CombinedData: the rows are left as concatenated
CombinedDataUnsorted(data, frame_a, frame_b, col) ==
    Project(data, frame_a, col) \o Project(data, frame_b, col)

\* lines 313-316: pd.concat([...]).sort_values(["Entity", "Year"])
CombinedData(data, frame_a, frame_b, col) ==
    SortValues(Project(data, frame_a, col) \o Project(data, frame_b, col))

----------------------------------------------------------------------------
(* The handler of the Compare button *)

NoDelta == [e |-> 0, hi |-> 0, lo |-> 0]

NoResult ==
    [status |-> "None", which |-> "", metric_column |-> <<>>,
     latest_year_a |-> NoYear, latest_year_b |-> NoYear,
     value_a |-> NaN, value_b |-> NaN,
     stats_a |-> NoStats, stats_b |-> NoStats,
     delta |-> NoDelta, combined |-> <<>>, rendered |-> {}]

\* an error message in the progress container, nothing else drawn
Failure(status, which) ==
    [NoResult EXCEPT !.status = status, !.which = which]

\* faulty variant of EmptyCountry: country_a is named whichever is empty
EmptyCountryAlwaysA(frame_a, frame_b, a, b) == a

\* lines 151-154: the country the "No data available" message names
EmptyCountry(frame_a, frame_b, a, b) == IF frame_a = <<>> THEN a ELSE b

\* what the success branch draws (lines 204-320); the line chart needs a
\* non-missing value for each country, which the success branch has
Drawn(data, frame_a, frame_b, col) ==
    {"current", "statistics", "bar", "table"}
    \cup (IF SeriesCount(Values(data, frame_a, col)) > 0
             /\ SeriesCount(Values(data, frame_b, col)) > 0
          THEN {"line"} ELSE {})

\* lines 169-320, once the value column is known
CompareColumn(data, a, b, frame_a, frame_b, col) ==
    LET latest_year_a == LatestYear(data, frame_a)
        latest_year_b == LatestYear(data, frame_b)
        value_a == LatestValue(data, RowsOfYear(data, frame_a, latest_year_a), col)
        value_b == LatestValue(data, RowsOfYear(data, frame_b, latest_year_b), col)
        computed ==
            [NoResult EXCEPT
                !.metric_column = col,
                !.latest_year_a = latest_year_a,
                !.latest_year_b = latest_year_b,
                !.value_a = value_a,
                !.value_b = value_b,
                !.stats_a = CountryStats(data, frame_a, col),
                !.stats_b = CountryStats(data, frame_b, col)]
    IN  IF IsNA(value_a) \/ IsNA(value_b)
        THEN [computed EXCEPT !.status = "MissingCurrentValue"]
        ELSE [computed EXCEPT
                !.status = "Success",
                !.delta = FSub(value_b, value_a),
                !.combined = CombinedData(data, frame_a, frame_b, col),
                !.rendered = Drawn(data, frame_a, frame_b, col)]

\* lines 138-320: the handler on the fetched data
CompareData(data, a, b, metric) ==
    IF ~data.ok THEN Failure("FetchFailed", "")
    ELSE IF ~HasColumn(data, ColEntity) \/ ~HasColumn(data, ColYear)
    THEN Failure("InvalidFormat", "")
    ELSE LET frame_a == RowsOf(data, a)
             frame_b == RowsOf(data, b)
             mc == FindMetricColumn(data, metric)
         IN  IF frame_a = <<>> \/ frame_b = <<>>
             THEN Failure("NoDataForCountry",
                          EmptyCountry(frame_a, frame_b, a, b))
             ELSE IF ~mc.found
             THEN Failure("ColumnNotFound", "")
             ELSE CompareColumn(data, a, b, frame_a, frame_b, mc.col)

\* df[df["metric"] == selected_metric][link column].values[0]
LinkOf(d, metric) ==
    d.rows[CHOOSE i \in DOMAIN d.rows :
              /\ d.rows[i].metric = metric
              /\ \A j \in 1..(i - 1) : d.rows[j].metric # metric].link

\* faulty variant of CountryList: the names are not sorted
CountryListUnsorted(t) == Unique(Column(t, ColEntity))

\* lines 87-99: the country list of a table with an Entity column
CountryList(t) == SortedNames(Unique(Column(t, ColEntity)))

\* faulty variant of OrFallback: the default list is sorted
OrFallbackSorted(c) == IF c = <<>> THEN SortedNames(FALLBACK_COUNTRIES) ELSE c

\* lines 101-104: the default list when the loop found no country
OrFallback(c) == IF c = <<>> THEN FALLBACK_COUNTRIES ELSE c

----------------------------------------------------------------------------
(* Inputs: catalog sheets and what the dataset links serve *)

\* all sequences over S of length 0..n
SeqsUpTo(S, n) == UNION {[1..k -> S] : k \in 0..n}

\* all sequences over S of length 1..n without a repeated element
InjSeqsUpTo(S, n) ==
    {q \in UNION {[1..k -> S] : k \in 1..n} :
        \A i, j \in DOMAIN q : i # j => q[i] # q[j]}

Years == {2019, 2020}
Entities == {"China", "India"}
CellValues == {NaN, F14, F16}

\* the countries the user picks among those offered
Pickable == {"China", "India"}

\* catalog rows: two with a link, one with a missing link, one with a link
\* of nothing but whitespace
SheetRowPool ==
    { [metric |-> MetGdp,  link |-> "url1"],
      [metric |-> MetPop,  link |-> "url2"],
      [metric |-> MetLife, link |-> NaLink],
      [metric |-> MetCO2,  link |-> " "] }

ValueTable(rows) == Frame(<<ColEntity, ColYear, ColGDP>>, rows)

TableBoth ==
    ValueTable(<< <<"India", 2019, F14>>, <<"China", 2019, F16>>,
                  <<"India", 2020, F16>> >>)
TableIndia == ValueTable(<< <<"India", 2020, F14>> >>)
TableEmpty == ValueTable(<<>>)
TableNoEntity ==
    Frame(<<ColCode, ColYear, ColGDP>>, << <<"CHN", 2019, F14>> >>)

\* what a link serves in the catalog inputs (a request may fail all the same)
Served == {TableBoth, TableIndia, TableEmpty, TableNoEntity}

\* the rows of the column-layout inputs: one row per country
LayoutCell(col, r) ==
    CASE col = ColEntity -> IF r = 1 THEN "China" ELSE "India"
      [] col = ColYear   -> IF r = 1 THEN 2019 ELSE 2020
      [] col = ColCode   -> IF r = 1 THEN "CHN" ELSE "IND"
      [] col = ColGDP    -> IF r = 1 THEN F14 ELSE F16
      [] col = ColGdpPc  -> IF r = 1 THEN F16 ELSE F14
      [] OTHER           -> IF r = 1 THEN F16 ELSE NaN

LayoutTable(cols) ==
    Frame(cols, [r \in 1..2 |-> [j \in DOMAIN cols |-> LayoutCell(cols[j], r)]])

ColPool == {ColEntity, ColYear, ColCode, ColGDP, ColGdpPc, ColPop}

NoSel == [country_a |-> "", country_b |-> "", metric |-> <<>>]
EmptyMap == [u \in {} |-> NoneFrame]

InitRun ==
    /\ df = [ok |-> FALSE, rows |-> <<>>]
    /\ metrics = <<>>
    /\ cache = EmptyMap
    /\ netCalls = EmptyMap
    /\ firstResult = EmptyMap
    /\ lastFetch = NoFetch
    /\ fetchLog = <<>>
    /\ pc = "load"
    /\ idx = 0
    /\ countries = <<>>
    /\ sel = NoSel
    /\ result = NoResult

\* any catalog sheet, each link serving one of a few tables
InitCatalog ==
    /\ sheet \in {[ok |-> TRUE, rows |-> r] : r \in SeqsUpTo(SheetRowPool, MaxCatalog)}
    /\ web \in [URLs -> Served]

\* one metric whose dataset has any column layout
InitColumns ==
    /\ sheet \in {[ok |-> TRUE, rows |-> << [metric |-> m, link |-> "url1"] >>] :
                    m \in {MetGdp, MetPop, MetLife}}
    /\ web \in {[u \in URLs |-> IF u = "url1" THEN LayoutTable(c) ELSE NoneFrame] :
                    c \in InjSeqsUpTo(ColPool, MaxCols)}

\* one metric whose dataset has any rows
InitRows ==
    /\ sheet = [ok |-> TRUE, rows |-> << [metric |-> MetGdp, link |-> "url1"] >>]
    /\ web \in {[u \in URLs |-> IF u = "url1" THEN ValueTable(r) ELSE NoneFrame] :
                    r \in SeqsUpTo(Entities \X Years \X CellValues, MaxRows)}

\* no catalog file and no upload
InitNoSheet ==
    /\ sheet = [ok |-> FALSE, rows |-> <<>>]
    /\ web = [u \in URLs |-> NoneFrame]

Init ==
    /\ InitCatalog \/ InitColumns \/ InitRows \/ InitNoSheet
    /\ InitRun

----------------------------------------------------------------------------
(* The script *)

\* lines 77-81: df = load_dataset(); metrics
LoadDataset ==
    /\ pc = "load"
    /\ df' = load_dataset(sheet)
    /\ metrics' = MetricList(df')
    /\ pc' = IF df'.ok THEN "loop" ELSE "upload"
    /\ idx' = 1
    /\ UNCHANGED <<sheet, web, cache, netCalls, firstResult, lastFetch,
                   fetchLog, countries, sel, result>>

\* line 93: the link is worth a request
ValidLink(url) == ~IsNaLink(url) /\ Strip(url) # ""

\* lines 92-99: one turn of the loop on a link that is fetched
LoopFetch ==
    /\ pc = "loop"
    /\ idx <= Len(df.rows)
    /\ ValidLink(df.rows[idx].link)
    /\ \E outcome \in NetworkOutcomes(df.rows[idx].link) :
         LET url == df.rows[idx].link
             f == fetch_country_data(url, outcome)
         IN  /\ RecordFetch(url, f)
             /\ fetchLog' = Append(fetchLog, url)
             /\ IF HasColumn(f.result, ColEntity)
                THEN /\ countries' = CountryList(f.result)
                     /\ pc' = "check"
                     /\ idx' = idx
                ELSE /\ countries' = countries
                     /\ pc' = pc
                     /\ idx' = idx + 1
    /\ UNCHANGED <<sheet, web, df, metrics, sel, result>>

\* lines 92-93: one turn of the loop on a link that is skipped
LoopSkip ==
    /\ pc = "loop"
    /\ idx <= Len(df.rows)
    /\ ~ValidLink(df.rows[idx].link)
    /\ idx' = idx + 1
    /\ UNCHANGED <<sheet, web, df, metrics, cache, netCalls, firstResult,
                   lastFetch, fetchLog, pc, countries, sel, result>>

\* the loop runs off the end of the catalog
LoopEnd ==
    /\ pc = "loop"
    /\ idx > Len(df.rows)
    /\ pc' = "check"
    /\ UNCHANGED <<sheet, web, df, metrics, cache, netCalls, firstResult,
                   lastFetch, fetchLog, idx, countries, sel, result>>

\* lines 101-104
CheckFallback ==
    /\ pc = "check"
    /\ countries' = OrFallback(countries)
    /\ pc' = "select"
    /\ UNCHANGED <<sheet, web, df, metrics, cache, netCalls, firstResult,
                   lastFetch, fetchLog, idx, sel, result>>

\* st.selectbox over no options gives None
MetricChoices == IF metrics = <<>> THEN {<<>>} ELSE Range(metrics)

\* lines 112-124: the user picks and presses Compare
Select ==
    /\ pc = "select"
    /\ \E a \in Range(countries) \cap Pickable,
          b \in Range(countries) \cap Pickable,
          m \in MetricChoices :
         sel' = [country_a |-> a, country_b |-> b, metric |-> m]
    /\ pc' = "compare"
    /\ UNCHANGED <<sheet, web, df, metrics, cache, netCalls, firstResult,
                   lastFetch, fetchLog, idx, countries, result>>

\* lines 323-329: the run ends without the button pressed
Idle ==
    /\ pc = "select"
    /\ pc' = "done"
    /\ UNCHANGED <<sheet, web, df, metrics, cache, netCalls, firstResult,
                   lastFetch, fetchLog, idx, countries, sel, result>>

\* selected_metric in df['metric'].values
KnownMetric(m) == \E i \in DOMAIN df.rows : df.rows[i].metric = m

\* lines 132-320
Compare ==
    /\ pc = "compare"
    /\ KnownMetric(sel.metric)
    /\ \E outcome \in NetworkOutcomes(LinkOf(df, sel.metric)) :
         LET link == LinkOf(df, sel.metric)
             f == fetch_country_data(link, outcome)
         IN  /\ RecordFetch(link, f)
             /\ result' = CompareData(f.result, sel.country_a, sel.country_b,
                                      sel.metric)
    /\ pc' = "done"
    /\ UNCHANGED <<sheet, web, df, metrics, fetchLog, idx, countries, sel>>

\* lines 321-322
CompareInvalidMetric ==
    /\ pc = "compare"
    /\ ~KnownMetric(sel.metric)
    /\ result' = Failure("InvalidMetric", "")
    /\ pc' = "done"
    /\ UNCHANGED <<sheet, web, df, metrics, cache, netCalls, firstResult,
                   lastFetch, fetchLog, idx, countries, sel>>

\* the next interaction runs the script again; the st.cache_data stores stay
Rerun ==
    /\ pc = "done"
    /\ pc' = "loop"
    /\ idx' = 1
    /\ countries' = <<>>
    /\ fetchLog' = <<>>
    /\ sel' = NoSel
    /\ result' = NoResult
    /\ UNCHANGED <<sheet, web, df, metrics, cache, netCalls, firstResult,
                   lastFetch>>

Next ==
    \/ LoadDataset
    \/ LoopFetch
    \/ LoopSkip
    \/ LoopEnd
    \/ CheckFallback
    \/ Select
    \/ Idle
    \/ Compare
    \/ CompareInvalidMetric
    \/ Rerun

Spec == Init /\ [][Next]_vars

----------------------------------------------------------------------------
(* Properties: fetching and country resolution *)

\* the country loop and the fallback test of this run are over
Resolved == pc \in {"select", "compare", "done"}

\* the comparison handler of this run has fetched and processed data
Compared == pc = "done" /\ result.status \notin {"None", "InvalidMetric"}

LinkAt(i) == df.rows[i].link

\* entry i was fetched and gave a table with an Entity column
Succeeded(i) ==
    /\ ValidLink(LinkAt(i))
    /\ LinkAt(i) \in DOMAIN firstResult
    /\ HasColumn(firstResult[LinkAt(i)], ColEntity)

\* the first catalog entry that succeeded, 0 when none did
FirstSuccess ==
    IF \E i \in DOMAIN df.rows : Succeeded(i)
    THEN CHOOSE i \in DOMAIN df.rows :
            Succeeded(i) /\ \A j \in 1..(i - 1) : ~Succeeded(j)
    ELSE 0

\* the links worth a request among the first k entries, in catalog order
ProbedLinks(k) ==
    LET keep == IdxSeq(k, {i \in 1..k : ValidLink(LinkAt(i))})
    IN  [j \in DOMAIN keep |-> LinkAt(keep[j])]

\* c lists the Entity values of t once each, in ascending order
IsSortedDistinctOf(c, t) ==
    /\ Range(c) = {Cell(t, i, ColEntity) : i \in DOMAIN t.rows}
    /\ \A i, j \in DOMAIN c : i < j => NameRank(c[i]) < NameRank(c[j])

\* C1: at most one network request is issued per url, and every fetch of a
\* url returns what the first fetch of that url returned.
C1_FetchMemoized ==
    /\ \A u \in DOMAIN netCalls : netCalls[u] <= 1
    /\ lastFetch.made =>
          /\ lastFetch.url \in DOMAIN firstResult
          /\ lastFetch.result = firstResult[lastFetch.url]

\* C1 witness: the country loop and the comparison of one run both fetched
\* the same url, which served a table, with one request in all.
C1_Witness ==
    /\ Compared
    /\ lastFetch.url \in Range(fetchLog)
    /\ lastFetch.result.ok
    /\ netCalls[lastFetch.url] = 1

\* C2 as stated: the loop fetches the links in catalog order up to the
\* first table with an Entity column and no further, and the country list
\* is the sorted distinct Entity values of that table.
C2_Original ==
    Resolved =>
        LET k == FirstSuccess
        IN  /\ fetchLog = ProbedLinks(IF k = 0 THEN Len(df.rows) ELSE k)
            /\ k # 0 => IsSortedDistinctOf(countries, firstResult[LinkAt(k)])

\* C2 amended: the loop fetches the links in catalog order up to the first
\* table with an Entity column and no further; the country list is the
\* sorted distinct Entity values of that table when it has rows, and the
\* fallback list when it has none.
C2_FirstSuccessWins ==
    Resolved =>
        LET k == FirstSuccess
        IN  /\ fetchLog = ProbedLinks(IF k = 0 THEN Len(df.rows) ELSE k)
            /\ k # 0 =>
                 LET t == firstResult[LinkAt(k)]
                 IN  IF t.rows = <<>>
                     THEN countries = FALLBACK_COUNTRIES
                     ELSE IsSortedDistinctOf(countries, t)

\* C2 witness: the first entry gave a table with two countries; the second
\* entry has another link, which serves a table with other Entity values
\* and was never fetched.
C2_Witness ==
    /\ Resolved
    /\ FirstSuccess = 1
    /\ Len(df.rows) = 2
    /\ ValidLink(LinkAt(2))
    /\ LinkAt(2) \notin DOMAIN firstResult
    /\ HasColumn(web[LinkAt(2)], ColEntity)
    /\ Range(Column(web[LinkAt(2)], ColEntity)) # Range(countries)
    /\ fetchLog = <<LinkAt(1)>>
    /\ Len(countries) = 2

\* C3: when no catalog entry gives a table with an Entity column, the
\* country list is the fallback list, entry for entry.
C3_FallbackList ==
    (Resolved /\ FirstSuccess = 0) =>
        /\ countries = FALLBACK_COUNTRIES
        /\ Len(countries) = 20

\* C3 witness: two links were fetched, one failed and one served a table
\* without an Entity column, and the list is the fallback list.
C3_Witness ==
    /\ Resolved
    /\ FirstSuccess = 0
    /\ Len(fetchLog) = 2
    /\ \E i \in DOMAIN fetchLog : ~firstResult[fetchLog[i]].ok
    /\ \E i \in DOMAIN fetchLog : firstResult[fetchLog[i]].ok
    /\ countries[1] = "United States"

\* C10 as stated: no loaded catalog entry has a missing or empty link, so
\* no offered metric and no link used by a comparison comes from one.
C10_NoEmptyLinkLoaded ==
    /\ \A i \in DOMAIN df.rows : ValidLink(LinkAt(i))
    /\ \A i \in DOMAIN metrics :
          \A j \in DOMAIN df.rows :
             df.rows[j].metric = metrics[i] => ValidLink(LinkAt(j))
    /\ Compared => ValidLink(lastFetch.url)

----------------------------------------------------------------------------
(* Properties: the comparison.  The reference values below are stated over *)
(* the table the handler fetched and the selection, not over the handler's *)
(* intermediate frames.                                                    *)

\* the table the handler of this run worked on: what its fetch returned
Data == lastFetch.result

\* the handler got a table with the Entity and Year columns
ComparedTable ==
    /\ Compared
    /\ Data.ok
    /\ ColEntity \in Range(Data.columns)
    /\ ColYear \in Range(Data.columns)

\* the rows of country c in the fetched table
RowSet(c) ==
    {i \in DOMAIN Data.rows : Cell(Data, i, ColEntity) = c}

BothHaveRows == RowSet(sel.country_a) # {} /\ RowSet(sel.country_b) # {}

\* metric occurs in name, letter case ignored
MatchesName(metric, name) ==
    \E k \in 0..(Len(name) - Len(metric)) :
        \A i \in DOMAIN metric : LowerChar(metric[i]) = LowerChar(name[k + i])

MatchingCols ==
    {j \in DOMAIN Data.columns :
        MatchesName(sel.metric, Data.columns[j])}

OtherCols ==
    {j \in DOMAIN Data.columns :
        /\ Data.columns[j] # ColEntity
        /\ Data.columns[j] # ColYear
        /\ Data.columns[j] # ColCode}

Least(S) == CHOOSE x \in S : \A y \in S : x <= y

\* the value column the claim prescribes: 0 when there is none
ExpectedCol ==
    IF MatchingCols # {} THEN Least(MatchingCols)
    ELSE IF OtherCols # {} THEN Least(OtherCols)
    ELSE 0

ValueColumnAsPrescribed ==
    IF ExpectedCol = 0
    THEN /\ result.status = "ColumnNotFound"
         /\ result.rendered = {}
         /\ result.combined = <<>>
    ELSE /\ result.status \in {"Success", "MissingCurrentValue"}
         /\ result.metric_column = Data.columns[ExpectedCol]

\* C4 as stated: for every table, metric and pair of countries the value
\* column is the first column matching the metric name, else the first
\* column other than Entity, Year and Code, else ColumnNotFound.
C4_Original == ComparedTable => ValueColumnAsPrescribed

\* C4 amended: the same, for every table in which both countries have at
\* least one row (a country without rows ends the run before the column is
\* looked for).
C4_ValueColumn == (ComparedTable /\ BothHaveRows) => ValueColumnAsPrescribed

\* C4 witness: the metric name matches the later of two value columns, and
\* only with the letter case ignored.
C4_Witness ==
    /\ ComparedTable
    /\ sel.metric = MetGdp
    /\ Data.columns = <<ColEntity, ColYear, ColPop, ColGDP>>
    /\ result.metric_column = ColGDP

\* C5: a country without rows in the fetched table ends the comparison with
\* NoDataForCountry naming a country without rows (country_a when it has
\* none), with no statistics computed and nothing drawn.
C5_NoDataForCountry ==
    (ComparedTable /\ ~BothHaveRows) =>
        /\ result.status = "NoDataForCountry"
        /\ result.which \in {sel.country_a, sel.country_b}
        /\ RowSet(result.which) = {}
        /\ RowSet(sel.country_a) = {} => result.which = sel.country_a
        /\ result.stats_a = NoStats /\ result.stats_b = NoStats
        /\ result.rendered = {} /\ result.combined = <<>>

\* C5 witness: country_a has rows and country_b has none.
C5_Witness ==
    /\ ComparedTable
    /\ RowSet(sel.country_a) # {}
    /\ RowSet(sel.country_b) = {}
    /\ result.which = sel.country_b

\* the handler reached the current values
ReachedValues == Compared /\ result.status \in {"Success", "MissingCurrentValue"}

ValueAt(i) == Cell(Data, i, result.metric_column)
YearAt(i) == Cell(Data, i, ColYear)

\* the greatest year among the rows of country c
MaxYearOf(c) ==
    CHOOSE y \in {YearAt(i) : i \in RowSet(c)} :
        \A i \in RowSet(c) : YearAt(i) <= y

\* the first row of country c that carries its greatest year
LatestRow(c) == Least({i \in RowSet(c) : YearAt(i) = MaxYearOf(c)})

Observed(c) == {i \in RowSet(c) : ~IsNA(ValueAt(i))}

\* the float64 sum of the values at the rows q (a sequence of row numbers)
RECURSIVE SumAt(_)
SumAt(q) ==
    IF Len(q) = 1 THEN ValueAt(q[1])
    ELSE FAdd(SumAt(SubSeq(q, 1, Len(q) - 1)), ValueAt(q[Len(q)]))

\* the statistics st are the reference aggregates of country c
IsReferenceStats(st, c) ==
    LET N == Observed(c)
    IN  /\ \E i \in N : ValueAt(i) = st.max
        /\ \A i \in N : FLeq(ValueAt(i), st.max)
        /\ \E i \in N : ValueAt(i) = st.min
        /\ \A i \in N : FLeq(st.min, ValueAt(i))
        /\ st.max_year = YearAt(Least({i \in N : ValueAt(i) = st.max}))
        /\ st.min_year = YearAt(Least({i \in N : ValueAt(i) = st.min}))
        /\ st.mean = FDivCount(SumAt(IdxSeq(Len(Data.rows), N)),
                               Cardinality(N))

Ordered(st) == FLeq(st.min, st.mean) /\ FLeq(st.mean, st.max)

\* C8 as stated: for a country with at least one value the statistics
\* satisfy max >= mean >= min.
C8_MeanBetweenMinAndMax ==
    ReachedValues =>
        /\ Observed(sel.country_a) # {} => Ordered(result.stats_a)
        /\ Observed(sel.country_b) # {} => Ordered(result.stats_b)

\* the (Entity, Year, value) triples of the rows of country c, as a bag
TripleAt(i) == << Cell(Data, i, ColEntity), YearAt(i), ValueAt(i) >>

Occurrences(q, r) == Cardinality({k \in DOMAIN q : q[k] = r})

TripleCount(c, r) == Cardinality({i \in RowSet(c) : TripleAt(i) = r})

\* C9: on success the combined rows are the rows of country_a together with
\* the rows of country_b, as many as the two have in sum, ascending by
\* entity and then year.
C9_CombinedRows ==
    (Compared /\ result.status = "Success") =>
        /\ Len(result.combined) =
              Cardinality(RowSet(sel.country_a)) + Cardinality(RowSet(sel.country_b))
        /\ \A r \in Range(result.combined)
                    \cup {TripleAt(i) : i \in RowSet(sel.country_a) \cup RowSet(sel.country_b)} :
              Occurrences(result.combined, r) =
                 TripleCount(sel.country_a, r) + TripleCount(sel.country_b, r)
        /\ \A i, j \in DOMAIN result.combined :
              i < j =>
                 \/ NameRank(result.combined[i][1]) < NameRank(result.combined[j][1])
                 \/ /\ result.combined[i][1] = result.combined[j][1]
                    /\ result.combined[i][2] <= result.combined[j][2]

\* C9 witness: country_a sorts after country_b and its rows are out of year
\* order in the table, so the concatenation is not yet in order.
C9_Witness ==
    /\ Compared /\ result.status = "Success"
    /\ NameRank(sel.country_b) < NameRank(sel.country_a)
    /\ Len(result.combined) = 3
    /\ \E i, j \in RowSet(sel.country_a) : i < j /\ YearAt(j) < YearAt(i)

\* the rows of country c that carry the greatest year among its rows with a
\* value in the value column
MostRecentObserved(c) ==
    {i \in Observed(c) : \A j \in Observed(c) : YearAt(j) <= YearAt(i)}

\* C11 as stated: the current value of a country is its most recent
\* non-missing observation: for a country with at least one value, the
\* current value the comparison arrives at is the value of a row of the
\* greatest year among the rows whose value-column entry is not missing.
C11_MostRecentObservation ==
    ReachedValues =>
        /\ Observed(sel.country_a) # {} =>
              \E i \in MostRecentObserved(sel.country_a) :
                  result.value_a = ValueAt(i)
        /\ Observed(sel.country_b) # {} =>
              \E i \in MostRecentObserved(sel.country_b) :
                  result.value_b = ValueAt(i)

====
